---- MODULE Spec2Model ----
(***************************************************************************)
(* Limit-order engine: the OrderBook registry (src/common/types.rs), the   *)
(* per-order watcher task it spawns, and the execution path the watcher    *)
(* drives (src/solana/swap.rs, src/solana/jup.rs, src/utils.rs).           *)
(*                                                                         *)
(* place_order and cancel_order run under the tokio Mutex taken by the     *)
(* request handlers (src/app/mod.rs), so each is one atomic action.  A     *)
(* watcher is one tokio task; every action named *_resp is one resumption  *)
(* of that task: the awaited response is consumed, the synchronous code    *)
(* up to the next .await runs, and the next request is issued.             *)
(*                                                                         *)
(* Spec is the engine.  SpecTax, SpecPlan and SpecAsm apply the pure       *)
(* parts of the execution path (sub_tax, the instruction list of           *)
(* swap_with_tax, get_address_lookup and build_versioned_transaction) to   *)
(* inputs drawn from bounded sets; they keep the engine in its initial     *)
(* state and use the variable calc.                                        *)
(***************************************************************************)
EXTENDS Integers, FiniteSets, Sequences, TLC

\* ---- bounds -------------------------------------------------------------
MaxOrders == 2

\* ---- program constants --------------------------------------------------
\* prices are counted in units of 0.0001, so 0.001 is 10 units
EPSILON == 10

Ids == 1..MaxOrders

WellFormedMints == {"SOL", "USDC"}

\* The requests place_order is exercised with.
Requests ==
  { [input_mint |-> "SOL",  output_mint |-> "USDC", price |-> 100, amount |-> 1000,
     slippage_bps |-> 50,    tip_amount |-> <<>>, keypair_ok |-> TRUE],
    [input_mint |-> "USDC", output_mint |-> "SOL",  price |-> 100, amount |-> 0,
     slippage_bps |-> 10001, tip_amount |-> <<5>>, keypair_ok |-> TRUE],
    [input_mint |-> "bad",  output_mint |-> "USDC", price |-> 100, amount |-> 1000,
     slippage_bps |-> 50,    tip_amount |-> <<>>, keypair_ok |-> TRUE],
    [input_mint |-> "SOL",  output_mint |-> "USDC", price |-> 100, amount |-> 1000,
     slippage_bps |-> 50,    tip_amount |-> <<>>, keypair_ok |-> FALSE] }

\* prices the price source may report
Prices == {100, 109, 110}

VARIABLES
  orders,        \* OrderBook.orders: order id -> Order
  cancel_tasks,  \* OrderBook.cancel_tasks: ids that own a oneshot Sender
  next_id,       \* number of ids Uuid::new_v4 has produced
  chan,          \* per id, the oneshot channel between cancel_order and the task
  pc,            \* per id, where the watcher task is suspended
  luts,          \* per id, the route in hand names address lookup tables
  log,           \* per id, the calls of the execution issued and the results seen
  err,           \* per id, the step whose call returned an error to the task
  cancel_ok,     \* per id, cancel_order returned Ok
  cancel_dup,    \* per id, cancel_order returned Ok more than once
  place_ret,     \* per id, what the place_order call that made the id returned
  returned,      \* the ids place_order has returned, in call order
  spawned,       \* per id, the number of tokio::spawn calls made for it
  tied,          \* per id, a poll found the signal and a matching price together
  calc           \* the pure computation under study (idle in Spec)

vars == <<orders, cancel_tasks, next_id, chan, pc, luts, log, err,
          cancel_ok, cancel_dup, place_ret, returned, spawned, tied, calc>>

\* the variables of the registry and of the watcher tasks
engine == <<orders, cancel_tasks, next_id, chan, pc, luts, log, err,
            cancel_ok, cancel_dup, place_ret, returned, spawned, tied>>

Waiting   == {"Spawned", "Polling", "Sleeping"}
Executing == {"Quote", "SwapIx", "Blockhash", "Lookup", "Simulate",
              "SendBundle", "BundleStatus", "SendConfirm"}
Terminal  == {"Filled", "Failed", "Cancelled", "Panicked"}

\* The status of section 4.2, read off the task's position.
Status(id) ==
  IF pc[id] \in Waiting THEN "Waiting"
  ELSE IF pc[id] \in Executing THEN "Executing"
  ELSE pc[id]

Abs(x) == IF x < 0 THEN -x ELSE x

\* a comparison that also accepts a difference of exactly the tolerance
PriceMatches_inclusive(now_price, until_price) == Abs(now_price - until_price) <= EPSILON

PriceMatches(now_price, until_price) == Abs(now_price - until_price) < EPSILON

Idle == [op |-> "idle"]

InitEngine ==
  /\ orders = <<>>
  /\ cancel_tasks = {}
  /\ next_id = 0
  /\ chan = [i \in Ids |-> "none"]
  /\ pc = [i \in Ids |-> "NoTask"]
  /\ luts = [i \in Ids |-> FALSE]
  /\ log = [i \in Ids |-> {}]
  /\ err = [i \in Ids |-> "none"]
  /\ cancel_ok = [i \in Ids |-> FALSE]
  /\ cancel_dup = [i \in Ids |-> FALSE]
  /\ place_ret = [i \in Ids |-> "none"]
  /\ returned = <<>>
  /\ spawned = [i \in Ids |-> 0]
  /\ tied = [i \in Ids |-> FALSE]

Init == InitEngine /\ calc = Idle

\* ---- OrderBook ----------------------------------------------------------

\* place_order: no field of the request is inspected.  Both maps get the new
\* id, then the key string is decoded (a panic when it is not base58 of 64
\* bytes, which leaves both entries behind and drops rx), then the task is
\* spawned and the id returned.
\* a generator that hands out an id it has handed out before
new_v4_repeating(n) == IF n = 0 THEN 1 ELSE n

\* Uuid::new_v4(): 122 random bits, taken to be an id not produced before;
\* n ids have been produced so far.
new_v4(n) == n + 1

\* a place_order that spawns the watcher twice
spawn_twice(n) == n + 2

\* tokio::spawn, called once: n tasks exist for the id before the call
spawn(n) == n + 1

place_order(req) ==
  /\ next_id < MaxOrders
  /\ LET id == new_v4(next_id) IN
     /\ next_id' = next_id + 1
     /\ orders' = (id :> [order_id |-> id,
                                    price |-> req.price,
                                    input_mint |-> req.input_mint,
                                    output_mint |-> req.output_mint,
                                    amount |-> req.amount,
                                    slippage_bps |-> req.slippage_bps,
                                    tip_amount |-> req.tip_amount]) @@ orders
     /\ cancel_tasks' = cancel_tasks \cup {id}
     /\ IF req.keypair_ok
        THEN /\ chan' = [chan EXCEPT ![id] = "open"]
             /\ pc' = [pc EXCEPT ![id] = "Spawned"]
             /\ place_ret' = [place_ret EXCEPT ![id] = "Ok"]
             /\ spawned' = [spawned EXCEPT ![id] = spawn(@)]
             /\ returned' = Append(returned, id)
        ELSE /\ chan' = [chan EXCEPT ![id] = "closed"]
             /\ pc' = pc
             /\ place_ret' = [place_ret EXCEPT ![id] = "panic"]
             /\ UNCHANGED <<spawned, returned>>
  /\ UNCHANGED <<luts, log, err, cancel_ok, cancel_dup, tied, calc>>

\* tx.send(()): the value is stored when the receiver is still alive; the
\* Err of a send to a dropped receiver is discarded.
Send(c) == IF c = "open" THEN "sent" ELSE c

\* a cancel_order that looks the handle up without removing it
RemoveHandle_kept(tasks, id) == tasks

\* what cancel_tasks.remove(&order_id) leaves in the map
RemoveHandle(tasks, id) == tasks \ {id}

\* cancel_order: only cancel_tasks is consulted and changed.
cancel_order(id) ==
  IF id \in cancel_tasks
  THEN /\ cancel_tasks' = RemoveHandle(cancel_tasks, id)
       /\ chan' = [chan EXCEPT ![id] = Send(chan[id])]
       /\ cancel_dup' = [cancel_dup EXCEPT ![id] = @ \/ cancel_ok[id]]
       /\ cancel_ok' = [cancel_ok EXCEPT ![id] = TRUE]
       /\ UNCHANGED <<orders, next_id, pc, luts, log, err, place_ret,
                      returned, spawned, tied, calc>>
  ELSE UNCHANGED vars

\* ---- the watcher task ---------------------------------------------------

\* One resumption of the task spawned by place_order.  tokio::select! polls
\* rx and _order in a random order and takes the first branch that is ready;
\* this operator is the poll in which _order runs first and advances to
\* `to`.  When _order has not completed by then and the signal is already in
\* the channel, the rx branch completes the select in the same poll and
\* _order is dropped together with the request it just built.  The task's
\* end drops rx.  seen: the results consumed and the calls left in flight.
Resume(id, to, seen, e, tables) ==
  LET aborted == chan[id] = "sent" /\ to \notin Terminal IN
  /\ pc' = [pc EXCEPT ![id] = IF aborted THEN "Cancelled" ELSE to]
  /\ chan' = [chan EXCEPT ![id] = IF aborted \/ to \in Terminal THEN "closed" ELSE @]
  /\ log' = [log EXCEPT ![id] = IF aborted THEN @ ELSE @ \cup seen]
  /\ err' = [err EXCEPT ![id] = IF e = "none" THEN @ ELSE e]
  /\ luts' = [luts EXCEPT ![id] = tables /\ ~aborted]
  /\ UNCHANGED <<orders, cancel_tasks, next_id, cancel_ok, cancel_dup, 
                 place_ret, returned, spawned, tied, calc>>

\* a task that is woken by the signal and leaves it unread
select_cancelled_deaf(id) ==
  /\ pc[id] \in Waiting \cup Executing
  /\ chan[id] = "sent"
  /\ UNCHANGED vars

\* The poll in which rx runs first and holds the signal: _order is dropped
\* where it is suspended.
select_cancelled(id) ==
  /\ pc[id] \in Waiting \cup Executing
  /\ chan[id] = "sent"
  /\ pc' = [pc EXCEPT ![id] = "Cancelled"]
  /\ chan' = [chan EXCEPT ![id] = "closed"]
  /\ luts' = [luts EXCEPT ![id] = FALSE]
  /\ UNCHANGED <<orders, cancel_tasks, next_id, log, err,
                 cancel_ok, cancel_dup, place_ret, returned, spawned, tied, calc>>

\* _order up to its first .await: both mints are parsed, then the first
\* price request is issued.
order_start(id) ==
  /\ pc[id] = "Spawned"
  /\ IF orders[id].input_mint \in WellFormedMints /\ orders[id].output_mint \in WellFormedMints
     THEN Resume(id, "Polling", {}, "none", FALSE)
     ELSE Resume(id, "Failed", {}, "parse", FALSE)

\* swap_with_tax up to its first .await: the tax split, the pre-swap tax
\* transfer, then get_swap_ix issues the quote request.
swap_with_tax_start(id) == Resume(id, "Quote", {"quote"}, "none", FALSE)

\* a loop that looks at the signal only before it polls the price, and so
\* goes on to execute on a match that arrives together with the signal
price_matched_unraced(id) ==
  /\ pc' = [pc EXCEPT ![id] = "Quote"]
  /\ log' = [log EXCEPT ![id] = @ \cup {"quote"}]
  /\ tied' = [tied EXCEPT ![id] = @ \/ chan[id] = "sent"]
  /\ UNCHANGED <<orders, cancel_tasks, next_id, chan, luts, err, cancel_ok, cancel_dup,
                 place_ret, returned, spawned, calc>>

\* The polled price is within the tolerance: _order calls swap_with_tax.
\* With the signal already in the channel the select! polls rx in the same
\* poll, after _order has suspended in get_swap_ix, and ends the task
\* through the rx branch.
price_matched(id) ==
  IF chan[id] = "sent"
  THEN /\ pc' = [pc EXCEPT ![id] = "Cancelled"]
       /\ chan' = [chan EXCEPT ![id] = "closed"]
       /\ tied' = [tied EXCEPT ![id] = TRUE]
       /\ UNCHANGED <<orders, cancel_tasks, next_id, luts, log, err, cancel_ok, cancel_dup,
                      place_ret, returned, spawned, calc>>
  ELSE swap_with_tax_start(id)

\* get_price answered.  r is "err" (request failed, non-success status, or
\* no data.<mint>.price), "not_string" (price present but not a JSON string,
\* as_str().unwrap()), or "ok" with the parsed price now_price.
get_price_resp(id, r, now_price) ==
  /\ pc[id] = "Polling"
  /\ CASE r = "err" -> Resume(id, "Failed", {}, "price", FALSE)
       [] r = "not_string" -> Resume(id, "Panicked", {}, "none", FALSE)
       [] r = "ok" -> IF PriceMatches(now_price, orders[id].price)
                      THEN price_matched(id)
                      ELSE Resume(id, "Sleeping", {}, "none", FALSE)

\* the 800 ms sleep elapsed: the loop issues the next price request
sleep_done(id) ==
  /\ pc[id] = "Sleeping"
  /\ Resume(id, "Polling", {}, "none", FALSE)

\* jup.quote answered; get_swap_ix unwraps its result, then requests the
\* swap instructions.
quote_resp(id, ok) ==
  /\ pc[id] = "Quote"
  /\ IF ok THEN Resume(id, "SwapIx", {}, "none", FALSE)
           ELSE Resume(id, "Panicked", {}, "quote", FALSE)

\* jup.swap_instructions answered; on success the instruction list is built
\* and the latest blockhash requested.  tables: the route names lookup tables.
swap_instructions_resp(id, ok, tables) ==
  /\ pc[id] = "SwapIx"
  /\ IF ok THEN Resume(id, "Blockhash", {}, "none", tables)
           ELSE Resume(id, "Failed", {}, "swap_ix", FALSE)

\* Message::try_compile and VersionedTransaction::try_new, then the
\* simulation request.
compile_and_simulate(id, compiled) ==
  IF compiled THEN Resume(id, "Simulate", {"compiled", "simulate"}, "none", FALSE)
              ELSE Resume(id, "Failed", {}, "compile", FALSE)

\* get_latest_blockhash answered; build_versioned_transaction starts:
\* get_address_lookup fetches the tables only when the list is not empty.
blockhash_resp(id, ok, compiled) ==
  /\ pc[id] = "Blockhash"
  /\ IF ~ok THEN Resume(id, "Failed", {}, "blockhash", FALSE)
     ELSE IF luts[id] THEN Resume(id, "Lookup", {}, "none", TRUE)
     ELSE compile_and_simulate(id, compiled)

\* get_multiple_accounts answered.  r is "err", "bad_data" (a table fails to
\* deserialize), "all" (every table present) or "absent" (at least one table
\* is None: it is reported on stdout and skipped).
get_address_lookup_resp(id, r, compiled) ==
  /\ pc[id] = "Lookup"
  /\ IF r \in {"err", "bad_data"} THEN Resume(id, "Failed", {}, "lookup", FALSE)
     ELSE compile_and_simulate(id, compiled)

\* what the dispatcher issues once the simulation came back clean
Dispatch(id) ==
  IF orders[id].tip_amount # <<>>
  THEN Resume(id, "SendBundle", {"sim_ok", "send_bundle"}, "none", FALSE)
  ELSE Resume(id, "SendConfirm", {"sim_ok", "send_and_confirm"}, "none", FALSE)

\* a swap_with_tax that does not look at value.err of the simulation
AfterSimulation_unchecked(id, r) ==
  CASE r = "rpc_err" -> Resume(id, "Failed", {}, "simulate", FALSE)
    [] r = "sim_err" ->
         IF orders[id].tip_amount # <<>>
         THEN Resume(id, "SendBundle", {"sim_err", "send_bundle"}, "none", FALSE)
         ELSE Resume(id, "SendConfirm", {"sim_err", "send_and_confirm"}, "none", FALSE)
    [] r = "ok" -> Dispatch(id)

\* what swap_with_tax does with a simulation response
AfterSimulation(id, r) ==
  CASE r = "rpc_err" -> Resume(id, "Failed", {}, "simulate", FALSE)
    [] r = "sim_err" -> Resume(id, "Failed", {"sim_err"}, "simulate", FALSE)
    [] r = "ok" -> Dispatch(id)

\* simulate_transaction answered: "rpc_err", "sim_err" (value.err is Some)
\* or "ok".
simulate_resp(id, r) ==
  /\ pc[id] = "Simulate"
  /\ AfterSimulation(id, r)

\* what swap_with_tax does with the value send_bundle returned: send_bundle
\* maps a relay error and a response without "result" to Ok(None), a string
\* result to Ok(Some(id)), and unwraps as_str() of any other result.
AfterBundle(id, r) ==
  CASE r = "id" -> Resume(id, "BundleStatus", {"bundle_id", "bundle_status"}, "none", FALSE)
    [] r = "no_result" -> Resume(id, "Filled", {"bundle_none"}, "none", FALSE)
    [] r = "err" -> Resume(id, "Filled", {"bundle_none"}, "send_bundle", FALSE)
    [] r = "not_string" -> Resume(id, "Panicked", {}, "none", FALSE)

\* jito.send_bundle answered.
send_bundle_resp(id, r) ==
  /\ pc[id] = "SendBundle"
  /\ AfterBundle(id, r)

\* get_bundle_statuses answered; the status is printed, not inspected.
bundle_status_resp(id, ok) ==
  /\ pc[id] = "BundleStatus"
  /\ IF ok THEN Resume(id, "Filled", {}, "none", FALSE)
           ELSE Resume(id, "Failed", {}, "bundle_status", FALSE)

\* send_and_confirm_transaction_with_spinner answered.
send_and_confirm_resp(id, ok) ==
  /\ pc[id] = "SendConfirm"
  /\ IF ok THEN Resume(id, "Filled", {"confirmed"}, "none", FALSE)
           ELSE Resume(id, "Failed", {}, "send_and_confirm", FALSE)

\* the steps of the watcher tasks
WatcherNext ==
  \/ \E id \in Ids : select_cancelled(id)
  \/ \E id \in Ids : order_start(id)
  \/ \E id \in Ids, r \in {"err", "not_string"} : get_price_resp(id, r, 0)
  \/ \E id \in Ids, now_price \in Prices : get_price_resp(id, "ok", now_price)
  \/ \E id \in Ids : sleep_done(id)
  \/ \E id \in Ids, ok \in BOOLEAN : quote_resp(id, ok)
  \/ \E id \in Ids : swap_instructions_resp(id, FALSE, FALSE)
  \/ \E id \in Ids, tables \in BOOLEAN : swap_instructions_resp(id, TRUE, tables)
  \/ \E id \in Ids : blockhash_resp(id, FALSE, FALSE)
  \/ \E id \in Ids, compiled \in BOOLEAN : blockhash_resp(id, TRUE, compiled)
  \/ \E id \in Ids, r \in {"err", "bad_data"} : get_address_lookup_resp(id, r, FALSE)
  \/ \E id \in Ids, r \in {"all", "absent"}, compiled \in BOOLEAN :
        get_address_lookup_resp(id, r, compiled)
  \/ \E id \in Ids, r \in {"rpc_err", "sim_err", "ok"} : simulate_resp(id, r)
  \/ \E id \in Ids, r \in {"id", "no_result", "err", "not_string"} : send_bundle_resp(id, r)
  \/ \E id \in Ids, ok \in BOOLEAN : bundle_status_resp(id, ok)
  \/ \E id \in Ids, ok \in BOOLEAN : send_and_confirm_resp(id, ok)

Next ==
  \/ \E req \in Requests : place_order(req)
  \/ \E id \in Ids : cancel_order(id)
  \/ WatcherNext

Spec == Init /\ [][Next]_vars

\* The engine under a fair runtime: tx.send wakes the watcher task and the
\* runtime polls a woken task, so the poll that finds the signal is taken.
\* Responses of the network are not assumed to arrive.  Watchers share no
\* state, so one order fewer than in Spec is placed.
MaxLiveOrders == MaxOrders - 1

place_live_order(req) == next_id < MaxLiveOrders /\ place_order(req)

LiveNext ==
  \/ \E req \in Requests : place_live_order(req)
  \/ \E id \in Ids : cancel_order(id)
  \/ WatcherNext

LiveSpec == Init /\ [][LiveNext]_vars /\ \A id \in Ids : WF_vars(select_cancelled(id))

\* ---- properties ---------------------------------------------------------

Issued(id) == id <= next_id

\* cancel_order(id) returns Ok in this step
CancelSucceeds(id) == id \in cancel_tasks /\ id \notin cancel_tasks'

Broadcasts == {"send_bundle", "send_and_confirm"}

\* C1: cancel_order(id) returns Ok at most once for an id: no id has had a
\* second Ok, and after an Ok the handle is gone, so that every later
\* cancel_order(id) takes the not-found branch.
C1_CancelSucceedsAtMostOnce ==
  \A id \in Ids :
    /\ ~cancel_dup[id]
    /\ cancel_ok[id] => id \notin cancel_tasks

\* C1 witness: an id returned by place_order was cancelled with Ok exactly
\* once, its handle is gone and its watcher has ended Cancelled; every
\* cancel_order(id) from here on takes the not-found branch.
C1_Witness ==
  \E id \in Ids :
    /\ place_ret[id] = "Ok" /\ cancel_ok[id] /\ ~cancel_dup[id]
    /\ id \notin cancel_tasks /\ pc[id] = "Cancelled"

\* C2: cancel_order(id) never returns Ok for an id that was never issued or
\* whose watcher has already finished as Filled or Failed.
C2_CancelOfTerminalIsNotFound ==
  [][\A id \in Ids :
       (~Issued(id) \/ pc[id] \in {"Filled", "Failed"}) => ~CancelSucceeds(id)]_vars

\* C3: a watcher that has entered Executing is not aborted by a cancel: it
\* never goes from an execution step to Cancelled.
C3_ExecutingIsNotAborted ==
  [][\A id \in Ids : pc[id] \in Executing => pc'[id] # "Cancelled"]_vars

\* C4: an order that ended Cancelled has had no execution attempt: no route
\* fetch, no assembly, no simulation, no broadcast.
C4_CancelledNeverAttempted ==
  \A id \in Ids : pc[id] = "Cancelled" => log[id] = {}

\* C5: a broadcast (send-and-confirm or bundle submission) is only issued
\* after the simulation of the transaction returned without error, and an
\* order whose simulation reported an error is Failed with no broadcast.
C5_BroadcastOnlyAfterCleanSimulation ==
  \A id \in Ids :
    /\ log[id] \cap Broadcasts # {} => "sim_ok" \in log[id]
    /\ "sim_err" \in log[id] => pc[id] = "Failed" /\ log[id] \cap Broadcasts = {}

\* C5 witness: one order was broadcast after a clean simulation and one
\* order failed on a simulation error.
C5_Witness ==
  /\ \E id \in Ids : "sim_ok" \in log[id] /\ log[id] \cap Broadcasts # {}
  /\ \E id \in Ids : "sim_err" \in log[id] /\ pc[id] = "Failed"

\* C6: an order that reached Filled, Cancelled or Failed is in neither the
\* order map nor the cancellation-handle map.
C6_TerminalOrdersLeaveRegistry ==
  \A id \in Ids :
    pc[id] \in {"Filled", "Cancelled", "Failed"} =>
      id \notin DOMAIN orders /\ id \notin cancel_tasks

\* C7: the order map and the cancellation-handle map hold the same ids.
C7_MapsHoldSameIds == DOMAIN orders = cancel_tasks

\* C8: a request with amount 0, a malformed asset identifier or a slippage
\* outside [0,10000] is rejected: no such order is registered and no watcher
\* exists for it.
C8_InvalidRequestsRejected ==
  \A id \in DOMAIN orders :
    /\ orders[id].amount > 0
    /\ orders[id].input_mint \in WellFormedMints
    /\ orders[id].output_mint \in WellFormedMints
    /\ orders[id].slippage_bps \in 0..10000

\* C9: an order is Filled only when its settlement succeeded (confirmed
\* signature, or a bundle the relay accepted), and a bundle submission that
\* produced no bundle id ends the order Failed.
C9_FilledOnlyIfSettled ==
  \A id \in Ids :
    /\ pc[id] = "Filled" => "confirmed" \in log[id] \/ "bundle_id" \in log[id]
    /\ "bundle_none" \in log[id] => pc[id] = "Failed"

\* C10: an error at route fetch, compilation, simulation or broadcast ends
\* the order in Failed.
C10_ErrorEndsFailed ==
  \A id \in Ids :
    err[id] \in {"quote", "swap_ix", "compile", "simulate",
                 "send_bundle", "send_and_confirm"} => pc[id] = "Failed"

\* C11: an order's status moves only Waiting -> Executing, Executing -> Filled,
\* Executing -> Failed and Waiting -> Cancelled (after the watcher is spawned
\* in Waiting); a terminal status never changes and Executing never goes
\* back to Waiting.
AllowedTransitions ==
  {<<"NoTask", "Waiting">>, <<"Waiting", "Executing">>, <<"Executing", "Filled">>,
   <<"Executing", "Failed">>, <<"Waiting", "Cancelled">>}

StatusAfter(id) ==
  IF pc'[id] \in Waiting THEN "Waiting"
  ELSE IF pc'[id] \in Executing THEN "Executing"
  ELSE pc'[id]

C11_OnlyLifecycleTransitions ==
  [][\A id \in Ids :
       Status(id) # StatusAfter(id) => <<Status(id), StatusAfter(id)>> \in AllowedTransitions]_vars

C18_OneWatcherPerOrder ==
  \A id \in Ids :
    /\ spawned[id] = IF place_ret[id] = "Ok" THEN 1 ELSE 0
    /\ pc[id] # "NoTask" => spawned[id] = 1

C18_Witness ==
  /\ \E id \in Ids : place_ret[id] = "Ok" /\ spawned[id] = 1 /\ pc[id] \in Terminal
  /\ \E id \in Ids : place_ret[id] = "panic" /\ spawned[id] = 0

\* C19: a watcher in its poll loop leaves Waiting only into Executing (a
\* polled price matched) or into Cancelled (cancel_order was called),
\* whatever the price source returns.
C19_WaitingLeavesOnlyByMatchOrCancel ==
  [][\A id \in Ids :
       (pc[id] \in {"Polling", "Sleeping"} /\ pc'[id] \notin Waiting)
         => pc'[id] \in Executing \cup {"Cancelled"}]_vars

\* C29: every id in the cancellation-handle map has a watcher task that was
\* spawned for it: place_order registers the id and spawns its watcher, or
\* leaves both maps as they were, also when the key material is malformed.
C29_HandleImpliesWatcher ==
  \A id \in Ids :
    (id \in cancel_tasks \/ id \in DOMAIN orders) => spawned[id] = 1

\* C30: once cancel_order(id) has sent the signal to a watcher that has not
\* finished, the watcher task ends, and from the signal on it issues no new
\* price poll.
C30_CancelledWatcherTerminates ==
  /\ \A id \in Ids : (chan[id] = "sent") ~> (pc[id] \in Terminal)
  /\ [][\A id \in Ids :
          (chan[id] = "sent" /\ pc[id] # "Polling") => pc'[id] # "Polling"]_vars

C30_Witness ==
  \E id \in Ids :
    /\ cancel_ok[id] /\ place_ret[id] = "Ok" /\ chan[id] = "closed"
    /\ pc[id] = "Cancelled" /\ ~tied[id]

\* The engine when, besides the fair runtime, every external call made by
\* swap_with_tax comes back with some response.
execution_resp(id) ==
  \/ \E ok \in BOOLEAN : quote_resp(id, ok)
  \/ \E ok \in BOOLEAN, tables \in BOOLEAN : swap_instructions_resp(id, ok, tables)
  \/ \E ok \in BOOLEAN, compiled \in BOOLEAN : blockhash_resp(id, ok, compiled)
  \/ \E r \in {"err", "bad_data", "all", "absent"}, compiled \in BOOLEAN :
        get_address_lookup_resp(id, r, compiled)
  \/ \E r \in {"rpc_err", "sim_err", "ok"} : simulate_resp(id, r)
  \/ \E r \in {"id", "no_result", "err", "not_string"} : send_bundle_resp(id, r)
  \/ \E ok \in BOOLEAN : bundle_status_resp(id, ok)
  \/ \E ok \in BOOLEAN : send_and_confirm_resp(id, ok)

RespondingSpec ==
  /\ Init /\ [][LiveNext]_vars
  /\ \A id \in Ids : WF_vars(select_cancelled(id)) /\ WF_vars(execution_resp(id))

\* C32: when every external call responds and the runtime is fair, an order
\* that has entered Executing eventually is Filled or Failed.
C32_ExecutingEndsFilledOrFailed ==
  \A id \in Ids : (pc[id] \in Executing) ~> (pc[id] \in {"Filled", "Failed"})

(***************************************************************************)
(* u64 arithmetic.  A u64 is written as four 16-bit limbs, least           *)
(* significant first, so that the products and sums below are exact.       *)
(***************************************************************************)
LimbBase == 65536
LimbCount == 4
BPS_DENOMINATOR == 10000

U64Zero == <<0, 0, 0, 0>>
U64Max == <<65535, 65535, 65535, 65535>>

\* the u64 of a small natural number (below 2^31)
U64(n) == <<n % LimbBase, n \div LimbBase, 0, 0>>

\* a * k for a small k, all limbs of the exact product (one more than a has)
RECURSIVE MulSmall(_, _, _)
MulSmall(a, k, carry) ==
  IF a = <<>> THEN <<carry>>
  ELSE LET t == Head(a) * k + carry
       IN <<t % LimbBase>> \o MulSmall(Tail(a), k, t \div LimbBase)

\* floor(a / d) for a small d; rem is the remainder carried down from the
\* limbs above
RECURSIVE DivSmall(_, _, _)
DivSmall(a, d, rem) ==
  IF a = <<>> THEN <<>>
  ELSE LET n == Len(a)
           t == rem * LimbBase + a[n]
       IN DivSmall(SubSeq(a, 1, n - 1), d, t % d) \o <<t \div d>>

\* a + b, all limbs of the exact sum (one more than a has)
RECURSIVE AddLimbs(_, _, _)
AddLimbs(a, b, carry) ==
  IF a = <<>> THEN <<carry>>
  ELSE LET t == Head(a) + Head(b) + carry
       IN <<t % LimbBase>> \o AddLimbs(Tail(a), Tail(b), t \div LimbBase)

\* a - b modulo 2^64, followed by the final borrow
RECURSIVE SubLimbs(_, _, _)
SubLimbs(a, b, borrow) ==
  IF a = <<>> THEN <<borrow>>
  ELSE LET t == Head(a) - Head(b) - borrow
       IN <<t % LimbBase>> \o SubLimbs(Tail(a), Tail(b), IF t < 0 THEN 1 ELSE 0)

\* the low 64 bits of a longer number
Low64(a) == SubSeq(a, 1, LimbCount)

\* a <= b for two u64
LessEq(a, b) == SubLimbs(b, a, 0)[LimbCount + 1] = 0

(***************************************************************************)
(* sub_tax                                                                 *)
(***************************************************************************)
\* a net amount from which the tax has not been taken
net_amount_untaxed(amount, tax) == amount

\* `amount - tax` of sub_tax, in wrapping arithmetic
net_amount(amount, tax) == Low64(SubLimbs(amount, tax, 0))

\* `(amount * tax_bps as u64) / 10000` of sub_tax, in wrapping arithmetic
wrapped_tax(amount, tax_bps) == DivSmall(Low64(MulSmall(amount, tax_bps, 0)), BPS_DENOMINATOR, 0)

\* floor(amount * tax_bps / 10000) over the naturals
exact_tax(amount, tax_bps) == Low64(DivSmall(MulSmall(amount, tax_bps, 0), BPS_DENOMINATOR, 0))

\* the product or the difference of sub_tax does not fit in 64 bits
overflows(amount, tax_bps) ==
  \/ MulSmall(amount, tax_bps, 0)[LimbCount + 1] # 0
  \/ ~LessEq(wrapped_tax(amount, tax_bps), amount)

\* What a call of sub_tax can do.  An overflow panics in a build with
\* overflow checks (the debug profile) and wraps in one without (the release
\* profile).
sub_tax(amount, tax_bps) ==
  LET tax == wrapped_tax(amount, tax_bps)
      ret == [panicked |-> FALSE, net |-> net_amount(amount, tax), tax |-> tax]
  IN IF overflows(amount, tax_bps)
     THEN {ret, [panicked |-> TRUE, net |-> U64Zero, tax |-> U64Zero]}
     ELSE {ret}

\* 2^64 / 10000, rounded down: the largest amount whose product with 10000
\* fits 64 bits
U64MaxOverDenominator == DivSmall(U64Max, BPS_DENOMINATOR, 0)

Amounts ==
  {U64Zero, U64(1), U64(199), U64(9999), U64(10000), U64(500000), U64(1000000),
   U64MaxOverDenominator, Low64(AddLimbs(U64MaxOverDenominator, U64(1), 0)),
   <<0, 0, 0, 32768>>, U64Max}

TaxBps == {0, 1, 50, 100, 9999, 10000}

InitTax ==
  /\ InitEngine
  /\ calc \in {[op |-> "sub_tax", at |-> "called", amount |-> a, tax_bps |-> b,
                net |-> U64Zero, tax |-> U64Zero, wrapped |-> FALSE] :
               a \in Amounts, b \in TaxBps}

sub_tax_return ==
  /\ calc.at = "called"
  /\ \E r \in sub_tax(calc.amount, calc.tax_bps) :
       /\ ~r.panicked
       /\ calc' = [calc EXCEPT !.at = "returned", !.net = r.net, !.tax = r.tax,
                               !.wrapped = overflows(calc.amount, calc.tax_bps)]
  /\ UNCHANGED engine

sub_tax_panic ==
  /\ calc.at = "called"
  /\ \E r \in sub_tax(calc.amount, calc.tax_bps) :
       /\ r.panicked
       /\ calc' = [calc EXCEPT !.at = "panicked"]
  /\ UNCHANGED engine

NextTax == sub_tax_return \/ sub_tax_panic

SpecTax == InitTax /\ [][NextTax]_vars

C14_TaxIsRoundedDownShare ==
  calc.at = "returned" =>
    /\ calc.tax = exact_tax(calc.amount, calc.tax_bps)
    /\ calc.tax_bps = 0 => calc.tax = U64Zero
    /\ calc.tax_bps = BPS_DENOMINATOR => calc.net = U64Zero
    /\ LessEq(calc.tax, calc.amount)

(***************************************************************************)
(* swap_with_tax: the instruction list                                     *)
(***************************************************************************)
MaxSetup == 2

SOL == "SOL"

\* <<input_mint, output_mint>>
Pairs == {<<"SOL", "USDC">>, <<"USDC", "SOL">>, <<"USDC", "BONK">>}

PlanAmounts == {U64(199), U64(1000000), U64Max}
PlanBps == {50, 100}
OutAmounts == {U64Zero, U64(500000), U64Max}

\* system_instruction::transfer(&user, &tax_account, lamports)
Transfer(lamports) ==
  [op |-> "system_transfer", to |-> "tax_account", asset |-> "lamports", amount |-> lamports]

\* an instruction of the route response
RouteIx(kind) == [op |-> kind, to |-> "route", asset |-> "none", amount |-> U64Zero]

\* swap_resp.setup_instructions, n of them
SetupIxs(n) == [i \in 1..n |-> RouteIx("setup")]

\* a planner that asks the route for the amount before tax
swap_amount_gross(tax_before_swap, amount, amount_specified) == amount

\* the amount the route is requested for
swap_amount(tax_before_swap, amount, amount_specified) ==
  IF tax_before_swap THEN amount_specified ELSE amount

\* a planner that appends the transfer whatever the output amount
tax_after_swap_always(tax_before_swap, out_amount) == ~tax_before_swap

\* the condition of the transfer that follows the swap instruction
tax_after_swap(tax_before_swap, out_amount) == ~tax_before_swap /\ out_amount # U64Zero

\* a list in which the cleanup instruction comes before the tax transfer
assemble_cleanup_first(routed, tax_ix, last) == routed \o last \o tax_ix

\* the list after the route: the instructions so far with the setup and swap
\* instructions (routed), the transfer that follows the swap if there is
\* one (tax_ix), the cleanup instruction if there is one (last)
assemble(routed, tax_ix, last) == routed \o tax_ix \o last

\* the asset whose units an instruction of the given mint's amount counts
AssetOf(mint) == IF mint = SOL THEN "lamports" ELSE mint

InitPlan ==
  /\ InitEngine
  /\ calc \in {[op |-> "swap_with_tax", at |-> "called", input_mint |-> p[1], output_mint |-> p[2],
                amount |-> a, tax_bps |-> b, requested |-> U64Zero, out_amount |-> U64Zero,
                cleanup |-> FALSE, ixs |-> <<>>] :
               p \in Pairs, a \in PlanAmounts, b \in PlanBps}

\* swap_with_tax up to the call of get_swap_ix
swap_with_tax_enter ==
  /\ calc.at = "called"
  /\ LET tax_before_swap == calc.input_mint = SOL IN
     \E r \in sub_tax(calc.amount, calc.tax_bps) :
       IF r.panicked
       THEN calc' = [calc EXCEPT !.at = "panicked"]
       ELSE calc' = [calc EXCEPT
                       !.at = "routing",
                       !.ixs = IF tax_before_swap THEN <<Transfer(r.tax)>> ELSE <<>>,
                       !.requested = swap_amount(tax_before_swap, calc.amount, r.net)]
  /\ UNCHANGED engine

\* get_swap_ix returns the route; the rest of the list is built
swap_with_tax_route(out_amount, setup, cleanup) ==
  /\ calc.at = "routing"
  /\ LET tax_before_swap == calc.input_mint = SOL
         routed == calc.ixs \o SetupIxs(setup) \o <<RouteIx("swap")>>
         last == IF cleanup THEN <<RouteIx("cleanup")>> ELSE <<>>
     IN IF tax_after_swap(tax_before_swap, out_amount)
        THEN \E r \in sub_tax(out_amount, calc.tax_bps) :
               IF r.panicked
               THEN calc' = [calc EXCEPT !.at = "panicked", !.out_amount = out_amount,
                                         !.cleanup = cleanup]
               ELSE calc' = [calc EXCEPT !.at = "built", !.out_amount = out_amount,
                                         !.cleanup = cleanup,
                                         !.ixs = assemble(routed, <<Transfer(r.tax)>>, last)]
        ELSE calc' = [calc EXCEPT !.at = "built", !.out_amount = out_amount,
                                  !.cleanup = cleanup,
                                  !.ixs = assemble(routed, <<>>, last)]
  /\ UNCHANGED engine

\* get_swap_ix fails: the quote panics or swap_instructions returns Err
swap_with_tax_route_err ==
  /\ calc.at = "routing"
  /\ calc' = [calc EXCEPT !.at = "failed"]
  /\ UNCHANGED engine

NextPlan ==
  \/ swap_with_tax_enter
  \/ \E out_amount \in OutAmounts, setup \in 0..MaxSetup, cleanup \in BOOLEAN :
       swap_with_tax_route(out_amount, setup, cleanup)
  \/ swap_with_tax_route_err

SpecPlan == InitPlan /\ [][NextPlan]_vars

\* positions of the list that hold a transfer / an instruction of the route
\* proper (setup and swap)
TransferAt == {i \in 1..Len(calc.ixs) : calc.ixs[i].op = "system_transfer"}
RouteAt == {i \in 1..Len(calc.ixs) : calc.ixs[i].op \in {"setup", "swap"}}

\* C15: for a native input the route is requested for net = amount - tax,
\* and the list starts with the one transfer of tax to the tax account,
\* before every route instruction; 1_000_000 at 100 bps gives a transfer of
\* 10_000 and a route for 990_000.
C15_NativeInputTaxedBeforeSwap ==
  (calc.input_mint = SOL /\ calc.at \in {"routing", "built"}) =>
    /\ TransferAt = {1}
    /\ calc.ixs[1] = Transfer(calc.ixs[1].amount)
    /\ \A i \in RouteAt : i > 1
    /\ AddLimbs(calc.requested, calc.ixs[1].amount, 0) = calc.amount \o <<0>>
    /\ (calc.amount = U64(1000000) /\ calc.tax_bps = 100) =>
         calc.ixs[1].amount = U64(10000) /\ calc.requested = U64(990000)

C15_Witness ==
  /\ calc.input_mint = SOL /\ calc.at = "built"
  /\ calc.amount = U64(1000000) /\ calc.tax_bps = 100
  /\ calc.ixs[1] = Transfer(U64(10000)) /\ calc.requested = U64(990000)
  /\ Len(calc.ixs) = MaxSetup + 3

\* C16: for a non-native input the route is requested for the full amount
\* and no transfer precedes the route instructions; exactly one transfer, of
\* the tax on out_amount, follows all route instructions if out_amount is
\* not zero, and none if it is zero; out_amount 500_000 at 50 bps gives 2_500.
C16_OtherInputTaxedAfterSwap ==
  (calc.input_mint # SOL /\ calc.at \in {"routing", "built"}) =>
    /\ calc.requested = calc.amount
    /\ calc.at = "routing" => calc.ixs = <<>>
    /\ calc.at = "built" =>
         /\ calc.out_amount = U64Zero => TransferAt = {}
         /\ calc.out_amount # U64Zero =>
              /\ Cardinality(TransferAt) = 1
              /\ \A t \in TransferAt :
                   /\ calc.ixs[t] = Transfer(wrapped_tax(calc.out_amount, calc.tax_bps))
                   /\ \A i \in RouteAt : i < t
         /\ (calc.out_amount = U64(500000) /\ calc.tax_bps = 50) =>
              \A t \in TransferAt : calc.ixs[t].amount = U64(2500)

C16_Witness ==
  /\ calc.input_mint # SOL /\ calc.at = "built"
  /\ calc.out_amount = U64(500000) /\ calc.tax_bps = 50
  /\ \E t \in TransferAt : calc.ixs[t] = Transfer(U64(2500)) /\ t = MaxSetup + 2

\* positions of the list that hold a cleanup instruction
CleanupAt == {i \in 1..Len(calc.ixs) : calc.ixs[i].op = "cleanup"}

\* C24: when the route carries a cleanup instruction it is the last
\* instruction of the built list, after every route instruction and after
\* the transfer that follows the swap when there is one, for native and
\* for other input; without one the list holds no cleanup instruction.
C24_CleanupIsLast ==
  calc.at = "built" =>
    /\ calc.cleanup => CleanupAt = {Len(calc.ixs)}
    /\ ~calc.cleanup => CleanupAt = {}
    /\ \A c \in CleanupAt : \A i \in RouteAt \cup TransferAt : i < c

C24_Witness ==
  /\ calc.at = "built" /\ calc.cleanup /\ calc.input_mint # SOL
  /\ Len(calc.ixs) = MaxSetup + 3
  /\ calc.ixs[MaxSetup + 2].op = "system_transfer"
  /\ calc.ixs[MaxSetup + 3].op = "cleanup"

\* C25: for an input other than the native asset and a nonzero output, the
\* transfer that follows the swap moves the tax in units of the order's
\* output asset, whatever that asset is.
C25_TaxPaidInOutputAsset ==
  (calc.at = "built" /\ calc.input_mint # SOL /\ calc.out_amount # U64Zero) =>
    \A t \in TransferAt : calc.ixs[t].asset = AssetOf(calc.output_mint)

(***************************************************************************)
(* build_versioned_transaction and get_address_lookup                      *)
(***************************************************************************)
MaxTables == 4

\* what get_multiple_accounts holds for one address: no account (None), an
\* account with the data of a lookup table, an account with other data
AccountInfos == {"none", "table", "garbage"}

\* The loop of get_address_lookup from position index on: the first account
\* whose data does not deserialize ends the call with Err, an absent account
\* is printed and skipped, a table is pushed onto alts.
RECURSIVE lookup_loop(_, _, _)
lookup_loop(accounts_info, index, alts) ==
  IF index > Len(accounts_info) THEN [ok |-> TRUE, alts |-> alts]
  ELSE IF accounts_info[index] = "none" THEN lookup_loop(accounts_info, index + 1, alts)
  ELSE IF accounts_info[index] = "garbage" THEN [ok |-> FALSE, alts |-> <<>>]
  ELSE lookup_loop(accounts_info, index + 1, Append(alts, index))

InitAsm ==
  /\ InitEngine
  /\ calc \in {[op |-> "build_versioned_transaction", at |-> "called", accounts |-> n,
                accounts_info |-> <<>>, alts |-> <<>>] : n \in 0..MaxTables}

\* get_address_lookup with an empty list: nothing is fetched
get_address_lookup_empty ==
  /\ calc.at = "called" /\ calc.accounts = 0
  /\ calc' = [calc EXCEPT !.at = "looked_up"]
  /\ UNCHANGED engine

\* get_multiple_accounts fails
get_multiple_accounts_err ==
  /\ calc.at = "called" /\ calc.accounts > 0
  /\ calc' = [calc EXCEPT !.at = "failed"]
  /\ UNCHANGED engine

\* get_multiple_accounts returns accounts_info and the loop runs over it
get_multiple_accounts_ok ==
  /\ calc.at = "called" /\ calc.accounts > 0
  /\ \E accounts_info \in [1..calc.accounts -> AccountInfos] :
       LET r == lookup_loop(accounts_info, 1, <<>>) IN
       calc' = [calc EXCEPT !.at = IF r.ok THEN "looked_up" ELSE "failed",
                            !.accounts_info = accounts_info,
                            !.alts = r.alts]
  /\ UNCHANGED engine

\* Message::try_compile with the tables that were found
try_compile(ok) ==
  /\ calc.at = "looked_up"
  /\ calc' = [calc EXCEPT !.at = IF ok THEN "compiled" ELSE "failed"]
  /\ UNCHANGED engine

\* VersionedTransaction::try_new signs with the user's keypair
try_new ==
  /\ calc.at = "compiled"
  /\ calc' = [calc EXCEPT !.at = "signed"]
  /\ UNCHANGED engine

NextAsm ==
  \/ get_address_lookup_empty
  \/ get_multiple_accounts_err
  \/ get_multiple_accounts_ok
  \/ \E ok \in BOOLEAN : try_compile(ok)
  \/ try_new

SpecAsm == InitAsm /\ [][NextAsm]_vars

\* C20: when at least one referenced lookup table is absent from the result
\* of the batch fetch, assembly fails and no transaction is compiled or
\* signed.
C20_AbsentTableFailsAssembly ==
  (\E i \in 1..Len(calc.accounts_info) : calc.accounts_info[i] = "none")
    => calc.at = "failed"

(***************************************************************************)
(* swap_with_tax: settlement of a transaction whose simulation was clean   *)
(***************************************************************************)
\* get_tip_account picks one of a fixed pool of accounts at random
TipAccountCount == 8
TipAccounts == 1..TipAccountCount

\* tip_amount: None is <<>>, Some(n) is <<n>>
TipAmounts == {<<>>, <<0>>, <<5>>, <<1000000>>}

\* the transaction that pays the tip: one system transfer from the user
TipTx(account, tip) ==
  [op |-> "system_transfer", to |-> account, asset |-> "lamports", amount |-> tip]

\* a bundle with the tip in front of the swap
bundle_tip_first(versioned_tx, tip_tx) == <<tip_tx, versioned_tx>>

\* vec![versioned_tx, tip_tx]
bundle(versioned_tx, tip_tx) == <<versioned_tx, tip_tx>>

\* a dispatcher that goes back to dispatch when the bundle did not land
after_status_retry(r) == IF r = "landed" THEN "ok" ELSE "simulated"

\* Where swap_with_tax is after get_bundle_statuses answered: the status
\* is printed and Ok(()) returned; an error of the call is returned.
after_status(r) == IF r = "rpc_err" THEN "failed" ELSE "ok"

InitSettle ==
  /\ InitEngine
  /\ calc \in {[op |-> "settle", at |-> "simulated", tip_amount |-> t, relay |-> <<>>,
                direct |-> 0, bundle_id |-> FALSE, status_polls |-> 0] : t \in TipAmounts}

\* the branch on tip_amount and the call it makes
settle_dispatch ==
  /\ calc.at = "simulated"
  /\ IF calc.tip_amount # <<>>
     THEN \E account \in TipAccounts :
            calc' = [calc EXCEPT
                       !.at = "send_bundle",
                       !.relay = Append(@, bundle([op |-> "swap", to |-> "route",
                                                   asset |-> "none", amount |-> 0],
                                                  TipTx(account, calc.tip_amount[1])))]
     ELSE calc' = [calc EXCEPT !.at = "send_and_confirm", !.direct = @ + 1]
  /\ UNCHANGED engine

\* send_bundle returned: Some(id) is followed by the status request
settle_send_bundle_resp(r) ==
  /\ calc.at = "send_bundle"
  /\ CASE r = "id" -> calc' = [calc EXCEPT !.at = "bundle_status", !.bundle_id = TRUE,
                                          !.status_polls = @ + 1]
       [] r \in {"no_result", "err"} -> calc' = [calc EXCEPT !.at = "ok"]
       [] r = "not_string" -> calc' = [calc EXCEPT !.at = "panicked"]
  /\ UNCHANGED engine

\* get_bundle_statuses answered
settle_bundle_status_resp(r) ==
  /\ calc.at = "bundle_status"
  /\ calc' = [calc EXCEPT !.at = after_status(r)]
  /\ UNCHANGED engine

\* send_and_confirm_transaction_with_spinner answered
settle_send_and_confirm_resp(ok) ==
  /\ calc.at = "send_and_confirm"
  /\ calc' = [calc EXCEPT !.at = IF ok THEN "ok" ELSE "failed"]
  /\ UNCHANGED engine

NextSettle ==
  \/ settle_dispatch
  \/ \E r \in {"id", "no_result", "err", "not_string"} : settle_send_bundle_resp(r)
  \/ \E r \in {"landed", "failed", "unknown", "rpc_err"} : settle_bundle_status_resp(r)
  \/ \E ok \in BOOLEAN : settle_send_and_confirm_resp(ok)

SpecSettle == InitSettle /\ [][NextSettle]_vars

\* C22: an attempt settles by one path.  Without a tip amount the
\* transaction is sent by send_and_confirm and the relay is not called;
\* with a tip amount the relay gets one bundle, the swap transaction first
\* and the transfer of exactly the tip amount second, and nothing is sent
\* directly.
C22_OneSettlementPath ==
  /\ calc.direct + Len(calc.relay) <= 1
  /\ calc.tip_amount = <<>> =>
       /\ calc.relay = <<>>
       /\ calc.at # "simulated" => calc.direct = 1
  /\ calc.tip_amount # <<>> =>
       /\ calc.direct = 0
       /\ calc.at # "simulated" =>
            /\ Len(calc.relay) = 1
            /\ Len(calc.relay[1]) = 2
            /\ calc.relay[1][1].op = "swap"
            /\ calc.relay[1][2].op = "system_transfer"
            /\ calc.relay[1][2].to \in TipAccounts
            /\ calc.relay[1][2].amount = calc.tip_amount[1]

C22_Witness ==
  /\ calc.tip_amount = <<5>> /\ calc.at = "ok" /\ calc.bundle_id
  /\ calc.relay[1][2] = TipTx(TipAccountCount, 5) /\ calc.direct = 0

\* C28: after a bundle submission that returned a bundle id the status is
\* polled once; whatever the poll reports, the bundle is not submitted
\* again and nothing is sent directly.
C28_BundleStatusPolledOnce ==
  /\ calc.status_polls = IF calc.bundle_id THEN 1 ELSE 0
  /\ calc.bundle_id => Len(calc.relay) = 1 /\ calc.direct = 0
  /\ (calc.bundle_id /\ calc.at # "bundle_status") => calc.at \in {"ok", "failed"}

C28_Witness ==
  /\ calc.bundle_id /\ calc.status_polls = 1 /\ calc.at = "ok"
  /\ Len(calc.relay) = 1 /\ calc.direct = 0

(***************************************************************************)
(* _order: the poll loop of one watcher                                    *)
(***************************************************************************)
MaxPolls == 3

\* target prices and the prices the source may report, around the tolerance
WatchTargets == {100, 0}
WatchPrices == {0, 9, 10, 89, 90, 91, 100, 109, 110, 111}

\* the mint get_price is called with
polled_mint(order) == order.input_mint

InitWatch ==
  /\ InitEngine
  /\ calc \in {[op |-> "_order", at |-> "polling", input_mint |-> p[1], output_mint |-> p[2],
                until_price |-> t, asked |-> polled_mint([input_mint |-> p[1]]),
                now_price |-> -1, polls |-> 1] :
               p \in Pairs, t \in WatchTargets}

\* get_price returned Ok(now_price)
watch_price_ok(now_price) ==
  /\ calc.at = "polling"
  /\ calc' = [calc EXCEPT !.now_price = now_price,
                          !.at = IF PriceMatches(now_price, calc.until_price)
                                 THEN "executing" ELSE "sleeping"]
  /\ UNCHANGED engine

\* get_price returned Err, or panicked on a price that is not a string
watch_price_fail(r) ==
  /\ calc.at = "polling"
  /\ calc' = [calc EXCEPT !.at = IF r = "err" THEN "failed" ELSE "panicked"]
  /\ UNCHANGED engine

\* the 800 ms sleep elapsed: the next get_price is called
watch_sleep_done ==
  /\ calc.at = "sleeping"
  /\ calc.polls < MaxPolls
  /\ calc' = [calc EXCEPT !.at = "polling", !.polls = @ + 1,
                          !.asked = polled_mint([input_mint |-> calc.input_mint])]
  /\ UNCHANGED engine

NextWatch ==
  \/ \E now_price \in WatchPrices : watch_price_ok(now_price)
  \/ \E r \in {"err", "not_string"} : watch_price_fail(r)
  \/ watch_sleep_done

SpecWatch == InitWatch /\ [][NextWatch]_vars

\* C23: the watcher goes into execution only from a poll that returned a
\* price of the order's input asset whose distance from the target is
\* strictly below the tolerance; a poll outside the tolerance leads to the
\* delay and the next poll, not to execution.
C23_ExecutesOnlyWithinTolerance ==
  /\ calc.asked = calc.input_mint
  /\ calc.at = "executing" =>
       /\ calc.now_price \in WatchPrices
       /\ Abs(calc.now_price - calc.until_price) < EPSILON
  /\ calc.at = "sleeping" => Abs(calc.now_price - calc.until_price) >= EPSILON

C23_Witness ==
  /\ calc.at = "executing" /\ calc.polls = MaxPolls
  /\ calc.until_price = 100 /\ calc.now_price = 100 + EPSILON - 1

(***************************************************************************)
(* The request handlers and the registry lock                              *)
(*                                                                         *)
(* The handlers of app/mod.rs run concurrently on the runtime's worker     *)
(* threads and share one tokio::sync::Mutex<OrderBook>.  Here each         *)
(* statement of a handler is a step of its own, and the watchers run on    *)
(* their own tasks and never take the lock.                                *)
(***************************************************************************)
MaxRequests == 3

Handlers == 1 .. MaxRequests
LockIds == 1 .. MaxRequests

\* the ids a cancel request names: those that can be issued while a request
\* is left to cancel them; the last of them is never issued when the first
\* requests are cancels, so the not-found path is taken as well
CancelIds == 1 .. MaxRequests - 1

\* positions of a handler between lock() and the drop of the guard
Locked == {"locked", "order_inserted", "handle_inserted", "decoded", "spawned",
           "removed", "not_found", "sent"}

\* positions of a watcher task in which it awaits the network or the timer
NetworkWaits == {"Polling", "Sleeping", "Executing"}
WatchEnds == {"Completed", "Failed", "Cancelled"}

NoRequest == [kind |-> "none", at |-> "idle", id |-> 0, res |-> "none"]

EmptyBook == [orders |-> {}, cancel_tasks |-> {}, signalled |-> {}]

InitLock ==
  /\ InitEngine
  /\ calc = [op |-> "handlers", holder |-> 0, ids |-> 0,
             req |-> [r \in Handlers |-> NoRequest],
             book |-> EmptyBook,
             handled |-> {},
             task |-> [id \in LockIds |-> "NoTask"],
             serial |-> EmptyBook]

\* a whole registry operation, applied to a book in one piece
WholeOperation(book, request) ==
  IF request.kind = "place"
  THEN [book EXCEPT !.orders = @ \cup {request.id},
                    !.cancel_tasks = @ \cup {request.id}]
  ELSE IF request.id \in book.cancel_tasks
       THEN [book EXCEPT !.cancel_tasks = @ \ {request.id},
                         !.signalled = @ \cup {request.id}]
       ELSE book

\* the guard goes out of scope: the lock is free and the operation is over
Unlock(r, res) ==
  [calc EXCEPT !.holder = 0,
               !.req[r].at = "done", !.req[r].res = res,
               !.serial = WholeOperation(@, calc.req[r])]

\* requests are numbered in the order in which the server accepts them
Arrives(r) == \A q \in Handlers : q < r => calc.req[q].at # "idle"

\* POST /place_order: decrypt(&request.encrypt_pk) comes before lock()
handler_place_order(r, decrypt_ok) ==
  /\ calc.op = "handlers" /\ calc.req[r].at = "idle"
  /\ Arrives(r)
  /\ calc' = IF decrypt_ok
             THEN [calc EXCEPT !.req[r] = [NoRequest EXCEPT !.kind = "place", !.at = "lock_wait"]]
             ELSE [calc EXCEPT !.req[r] = [NoRequest EXCEPT !.kind = "place", !.at = "done",
                                                         !.res = "Err"]]
  /\ UNCHANGED engine

\* POST /cancel_order
handler_cancel_order(r, id) ==
  /\ calc.op = "handlers" /\ calc.req[r].at = "idle"
  /\ Arrives(r)
  /\ calc' = [calc EXCEPT !.req[r] = [NoRequest EXCEPT !.kind = "cancel", !.at = "lock_wait",
                                                      !.id = id]]
  /\ UNCHANGED engine

lock_shared(r) ==
  /\ calc.op = "handlers" /\ calc.req[r].at = "lock_wait"
  /\ calc' = [calc EXCEPT !.holder = r, !.req[r].at = "locked"]
  /\ UNCHANGED engine

\* order_book.lock().await returns once no other handler holds the guard
lock(r) ==
  /\ calc.op = "handlers" /\ calc.req[r].at = "lock_wait"
  /\ calc.holder = 0
  /\ calc' = [calc EXCEPT !.holder = r, !.req[r].at = "locked"]
  /\ UNCHANGED engine

\* self.orders.insert(order_id, order)
orders_insert(r) ==
  /\ calc.op = "handlers"
  /\ calc.req[r].kind = "place" /\ calc.req[r].at = "locked"
  /\ calc.ids < MaxRequests
  /\ LET id == new_v4(calc.ids)
     IN  calc' = [calc EXCEPT !.ids = id, !.req[r].id = id, !.req[r].at = "order_inserted",
                              !.book.orders = @ \cup {id}]
  /\ UNCHANGED engine

\* self.cancel_tasks.insert(order_id, tx)
cancel_tasks_insert(r) ==
  /\ calc.op = "handlers"
  /\ calc.req[r].kind = "place" /\ calc.req[r].at = "order_inserted"
  /\ calc' = [calc EXCEPT !.req[r].at = "handle_inserted",
                          !.book.cancel_tasks = @ \cup {calc.req[r].id},
                          !.handled = @ \cup {calc.req[r].id}]
  /\ UNCHANGED engine

\* Keypair::from_base58_string: a panic unwinds through the guard
keypair_decode(r, ok) ==
  /\ calc.op = "handlers"
  /\ calc.req[r].kind = "place" /\ calc.req[r].at = "handle_inserted"
  /\ calc' = IF ok THEN [calc EXCEPT !.req[r].at = "decoded"] ELSE Unlock(r, "panic")
  /\ UNCHANGED engine

spawn_inline(r) ==
  /\ calc.op = "handlers"
  /\ calc.req[r].kind = "place" /\ calc.req[r].at = "decoded"
  /\ calc' = [calc EXCEPT !.req[r].at = "Polling"]
  /\ UNCHANGED engine

\* tokio::spawn(async move { select! { .. } }): the task is handed to the runtime
spawn_watcher(r) ==
  /\ calc.op = "handlers"
  /\ calc.req[r].kind = "place" /\ calc.req[r].at = "decoded"
  /\ calc' = [calc EXCEPT !.req[r].at = "spawned", !.task[calc.req[r].id] = "Spawned"]
  /\ UNCHANGED engine

place_return_joined(r) ==
  /\ calc.op = "handlers"
  /\ calc.req[r].kind = "place" /\ calc.req[r].at = "spawned"
  /\ calc.task[calc.req[r].id] \in WatchEnds
  /\ calc' = Unlock(r, "Ok")
  /\ UNCHANGED engine

\* Ok(order_id), the response is built and the guard is dropped
place_return(r) ==
  /\ calc.op = "handlers"
  /\ calc.req[r].kind = "place" /\ calc.req[r].at = "spawned"
  /\ calc' = Unlock(r, "Ok")
  /\ UNCHANGED engine

\* a cancel_order that drops every handle of the map
cancel_tasks_remove_all(r) ==
  /\ calc.op = "handlers"
  /\ calc.req[r].kind = "cancel" /\ calc.req[r].at = "locked"
  /\ calc' = IF calc.req[r].id \in calc.book.cancel_tasks
             THEN [calc EXCEPT !.req[r].at = "removed", !.book.cancel_tasks = {}]
             ELSE [calc EXCEPT !.req[r].at = "not_found"]
  /\ UNCHANGED engine

\* self.cancel_tasks.remove(&order_id)
cancel_tasks_remove(r) ==
  /\ calc.op = "handlers"
  /\ calc.req[r].kind = "cancel" /\ calc.req[r].at = "locked"
  /\ calc' = IF calc.req[r].id \in calc.book.cancel_tasks
             THEN [calc EXCEPT !.req[r].at = "removed",
                               !.book.cancel_tasks = @ \ {calc.req[r].id}]
             ELSE [calc EXCEPT !.req[r].at = "not_found"]
  /\ UNCHANGED engine

\* let _ = tx.send(())
cancel_send(r) ==
  /\ calc.op = "handlers"
  /\ calc.req[r].kind = "cancel" /\ calc.req[r].at = "removed"
  /\ calc' = [calc EXCEPT !.req[r].at = "sent",
                          !.book.signalled = @ \cup {calc.req[r].id}]
  /\ UNCHANGED engine

\* Ok(()) or Err, the response is built and the guard is dropped
cancel_return(r) ==
  /\ calc.op = "handlers"
  /\ calc.req[r].kind = "cancel" /\ calc.req[r].at \in {"sent", "not_found"}
  /\ calc' = Unlock(r, IF calc.req[r].at = "sent" THEN "Ok" ELSE "Err")
  /\ UNCHANGED engine

\* the runtime polls a watcher task: it runs up to its next await
task_poll(id, to) ==
  /\ calc.op = "handlers"
  /\ calc.task[id] \notin WatchEnds \cup {"NoTask"}
  /\ IF id \in calc.book.signalled
     THEN to = "Cancelled"
     ELSE \/ calc.task[id] = "Spawned" /\ to \in {"Polling", "Failed"}
          \/ calc.task[id] = "Polling" /\ to \in {"Sleeping", "Executing", "Failed"}
          \/ calc.task[id] = "Sleeping" /\ to = "Polling"
          \/ calc.task[id] = "Executing" /\ to \in {"Completed", "Failed"}
  /\ calc' = [calc EXCEPT !.task[id] = to]
  /\ UNCHANGED engine

NextLock ==
  \/ \E r \in Handlers, decrypt_ok \in BOOLEAN : handler_place_order(r, decrypt_ok)
  \/ \E r \in Handlers, id \in CancelIds : handler_cancel_order(r, id)
  \/ \E r \in Handlers : lock(r)
  \/ \E r \in Handlers : orders_insert(r)
  \/ \E r \in Handlers : cancel_tasks_insert(r)
  \/ \E r \in Handlers, ok \in BOOLEAN : keypair_decode(r, ok)
  \/ \E r \in Handlers : spawn_watcher(r)
  \/ \E r \in Handlers : place_return(r)
  \/ \E r \in Handlers : cancel_tasks_remove(r)
  \/ \E r \in Handlers : cancel_send(r)
  \/ \E r \in Handlers : cancel_return(r)
  \/ \E id \in LockIds, to \in NetworkWaits \cup WatchEnds : task_poll(id, to)

SpecLock == InitLock /\ [][NextLock]_vars

\* C21 as stated: until place_order has returned, the watcher it spawned has
\* performed no step.
C21_ReturnsBeforeAnyWatcherStep ==
  \A r \in Handlers :
    calc.req[r].at = "spawned" => calc.task[calc.req[r].id] = "Spawned"

\* C21: once the watcher is spawned, place_order can return whatever the
\* watcher has or has not done: the return waits for no price poll, no price
\* match and no execution, and what it returns is the id of the spawned
\* watcher's order.
C21_ReturnDoesNotWaitForWatcher ==
  \A r \in Handlers :
    /\ calc.req[r].at = "spawned" => ENABLED place_return(r)
    /\ (calc.req[r].kind = "place" /\ calc.req[r].res = "Ok") =>
         calc.task[calc.req[r].id] # "NoTask"

\* place_order has returned the id and the order is still waiting for its price
C21_Witness ==
  \E r \in Handlers :
    /\ calc.req[r].kind = "place" /\ calc.req[r].res = "Ok"
    /\ calc.task[calc.req[r].id] = "Sleeping"
    /\ calc.req[r].id \notin calc.book.signalled

\* C26: at most one handler is inside a registry operation at a time; an id
\* that is in the order map while its handle was never inserted is seen only
\* by the place_order that is inserting it; and whenever the lock is free the
\* registry is what the whole operations, taken in the order of their
\* returns, make of the empty registry.
C26_RegistryOperationsAreAtomic ==
  /\ Cardinality({r \in Handlers : calc.req[r].at \in Locked}) <= 1
  /\ \A r \in Handlers : calc.req[r].at \in Locked <=> calc.holder = r
  /\ \A id \in calc.book.orders \ calc.handled :
       /\ calc.holder # 0
       /\ calc.req[calc.holder] = [kind |-> "place", at |-> "order_inserted",
                                   id |-> id, res |-> "none"]
  /\ calc.holder = 0 => calc.book = calc.serial

\* a cancel_order waits for the lock while the order it names is half inserted
C26_Witness ==
  \E r \in Handlers, c \in Handlers :
    /\ calc.req[r].kind = "place" /\ calc.req[r].at = "order_inserted"
    /\ calc.req[c].kind = "cancel" /\ calc.req[c].at = "lock_wait"
    /\ calc.req[c].id = calc.req[r].id
    /\ calc.req[r].id \notin calc.book.cancel_tasks

\* C27: the handler that holds the lock is at a statement that awaits
\* nothing, its next statement can run whatever the watchers are waiting
\* for, and a handler waiting for a free lock can take it.
C27_NoNetworkWaitUnderLock ==
  \A r \in Handlers :
    /\ calc.holder = r =>
         /\ calc.req[r].at \in Locked
         /\ ENABLED (\/ orders_insert(r) \/ cancel_tasks_insert(r)
                     \/ keypair_decode(r, TRUE) \/ spawn_watcher(r) \/ place_return(r)
                     \/ cancel_tasks_remove(r) \/ cancel_send(r) \/ cancel_return(r))
    /\ (calc.req[r].at = "lock_wait" /\ calc.holder = 0) => ENABLED lock(r)

\* a handler holds the lock while a watcher waits on the network
C27_Witness ==
  \E r \in Handlers, id \in LockIds :
    /\ calc.holder = r /\ calc.req[r].kind = "cancel" /\ calc.req[r].at = "locked"
    /\ calc.req[r].id = id /\ calc.task[id] = "Polling"

\* C31: a step of cancel_order(id) between taking the lock and returning
\* changes, in the registry, nothing but the handle and the channel of id:
\* the order map, every other handle and every other channel stay as they
\* are, no watcher task is moved, and on the not-found path the whole
\* registry stays as it is.
C31_CancelTouchesOnlyItsOrder ==
  [][\A r \in Handlers :
       (/\ calc.op = "handlers" /\ calc.req[r].kind = "cancel"
        /\ calc.req[r].at \in Locked /\ calc'.req[r] # calc.req[r]) =>
         LET id == calc.req[r].id IN
         /\ calc'.book.orders = calc.book.orders
         /\ calc'.book.cancel_tasks \ {id} = calc.book.cancel_tasks \ {id}
         /\ calc'.book.signalled \ {id} = calc.book.signalled \ {id}
         /\ calc'.task = calc.task
         /\ calc'.handled = calc.handled /\ calc'.ids = calc.ids
         /\ \A o \in Handlers \ {r} : calc'.req[o] = calc.req[o]
         /\ ("not_found" \in {calc.req[r].at, calc'.req[r].at}) => calc'.book = calc.book]_vars

\* a cancel_order has succeeded while another order stays registered with
\* its handle, unsignalled, and its watcher waiting on the network
C31_Witness ==
  \E r \in Handlers, o \in Handlers, id2 \in LockIds :
    /\ calc.req[r].kind = "cancel" /\ calc.req[r].at = "done"
    /\ calc.req[r].res = "Ok" /\ calc.req[r].id \in calc.book.signalled
    /\ calc.req[o].kind = "place" /\ calc.req[o].id = id2 /\ calc.req[o].res = "Ok"
    /\ id2 # calc.req[r].id
    /\ id2 \in calc.book.orders /\ id2 \in calc.book.cancel_tasks
    /\ id2 \notin calc.book.signalled /\ calc.task[id2] \in NetworkWaits
====
